---- MODULE Spec2Model ----
(***************************************************************************)
(* Scene-to-final-video compilation pipeline of VideoAgent.                *)
(*                                                                         *)
(* The model follows agents/video_compiler_agent.py (VideoCompilerAgent),  *)
(* agents/video_illustration_agent.py (VideoIllustrationAgent) and         *)
(* video_generation_orchestrator.py (VideoGenerationOrchestrator).         *)
(*                                                                         *)
(* Durations are integers counted in tenths of a second.  Caption windows  *)
(* are exact rationals [n, d] (n/d tenths of a second), so that D/N is     *)
(* computed without rounding.  External collaborators (script, narration,  *)
(* footage search, HTTP, the encoder) are nondeterministic choices over    *)
(* the outcomes their callers distinguish.                                 *)
(***************************************************************************)
EXTENDS Integers, Sequences, FiniteSets, TLC

\* ------------------------------------------------------------------ bounds
MaxScenes == 2          \* scenes in one script / one scenes_data list
MaxLines == 2           \* narration lines in one scene
MaxResults == 2         \* search results the footage provider looks at
MaxFitDur == 12         \* durations tried by the duration-fit harness
MaxCapLines == 5        \* caption lines tried by the caption harness
MaxIndex == 7           \* junction indexes tried by the selector harness
MaxTlScenes == 3        \* scene clips tried by the timeline harness

\* ------------------------------------------------- program constants (1/10 s)
TransitionDuration == 10    \* duration=1.0 passed by compile_final_video
IntroDuration == 30         \* ColorClip(..., duration=3) of the intro card
OutroDuration == 30         \* ColorClip(..., duration=3) of the outro card

\* narration and asset durations the pipeline is run on (tenths of a second):
\* shorter than, equal to and longer than one another and than the effect
NarrationDurations == {7, 14}
AssetDurations == {4, 7, 14, 20}

\* remote-footage URLs the provider can return; "" is an empty URL
UrlPool == {"A", "B"}
NoUrl == ""
\* duration of the video behind each URL
UrlDuration(u) == IF u = "A" THEN 7 ELSE 20

\* ------------------------------------------------------- exact rationals
Rat(n, d) == [n |-> n, d |-> d]
RatOfInt(k) == Rat(k, 1)
RatLE(a, b) == a.n * b.d <= b.n * a.d
RatLT(a, b) == a.n * b.d < b.n * a.d
RatEq(a, b) == a.n * b.d = b.n * a.d
RatMin(a, b) == IF RatLE(a, b) THEN a ELSE b
RatMax(a, b) == IF RatLE(a, b) THEN b ELSE a
RatTimes(k, a) == Rat(k * a.n, a.d)
\* the same number with denominator 1 when it is an integer
RatNorm(a) == IF a.n % a.d = 0 THEN Rat(a.n \div a.d, 1) ELSE a
RatAdd(a, b) == RatNorm(Rat(a.n * b.d + b.n * a.d, a.d * b.d))
RatSub(a, b) == RatNorm(Rat(a.n * b.d - b.n * a.d, a.d * b.d))

RECURSIVE RatMaxOver(_, _)
RatMaxOver(base, s) ==
    IF s = <<>> THEN base ELSE RatMaxOver(RatMax(base, Head(s)), Tail(s))

RECURSIVE RatSum(_)
RatSum(s) == IF s = <<>> THEN RatOfInt(0) ELSE RatAdd(Head(s), RatSum(Tail(s)))

\* ================================================================
\* Duration Reconciler: VideoCompilerAgent._create_looped_video
\* ================================================================

\* a faulty variant: the extra loop is not added
NumLoopsNoExtra(d, T) == T \div d

\* num_loops = int(target_duration / video_clip.duration) + 1
NumLoops(d, T) == (T \div d) + 1

\* a faulty variant: a long asset is returned whole and the loops untrimmed
CreateLoopedVideoNoTrim(d, T, concatRaises) ==
    IF d >= T
    THEN [duration |-> d, loops |-> 0, pre |-> 0, ext |-> 0, path |-> "trim"]
    ELSE [duration |-> NumLoops(d, T) * d, loops |-> NumLoops(d, T),
          pre |-> NumLoops(d, T) * d, ext |-> 0, path |-> "loop"]

\* a faulty variant: when the concatenation raises the asset is returned as is
CreateLoopedVideoNoFreeze(d, T, concatRaises) ==
    IF d >= T
    THEN [duration |-> T, loops |-> 0, pre |-> 0, ext |-> 0, path |-> "trim"]
    ELSE IF concatRaises
         THEN [duration |-> d, loops |-> NumLoops(d, T), pre |-> 0, ext |-> 0,
               path |-> "freeze"]
         ELSE [duration |-> T, loops |-> NumLoops(d, T),
               pre |-> NumLoops(d, T) * d, ext |-> 0, path |-> "loop"]

\* The clip returned for an asset of duration d and a target T.
\*   pre   duration of the concatenation before it is trimmed (0: none built)
\*   ext   duration given to the last 0.1 s slice appended after the asset
\*         by the except block (0: none appended)
\*   path  which branch produced the clip
\* concatRaises: concatenate_videoclips raised inside the try block.
CreateLoopedVideo(d, T, concatRaises) ==
    IF d >= T
    THEN [duration |-> T, loops |-> 0, pre |-> 0, ext |-> 0, path |-> "trim"]
    ELSE IF concatRaises
         THEN LET extension_duration == T - d
              IN [duration |-> d + extension_duration, loops |-> NumLoops(d, T),
                  pre |-> 0, ext |-> extension_duration, path |-> "freeze"]
         ELSE LET loops == NumLoops(d, T)
                  pre == loops * d
              IN [duration |-> IF pre > T THEN T ELSE pre,
                  loops |-> loops, pre |-> pre, ext |-> 0, path |-> "loop"]

\* ================================================================
\* Caption Compositor: timing windows and compositing
\* ================================================================

\* a faulty variant: the time per line is truncated to whole tenths
ExtractDialogueWholeTenths(lines, D) ==
    IF lines = 0
    THEN <<>>
    ELSE LET time_per_line == RatOfInt(D \div lines)
         IN [i \in 1..lines |->
                [line |-> i,
                 start |-> RatTimes(i - 1, time_per_line),
                 end |-> RatMin(RatTimes(i, time_per_line), RatOfInt(D))]]

\* extract_dialogue_from_content for a content list of `lines` strings and a
\* narration of D tenths: one window per line, in line order.
ExtractDialogueFromContent(lines, D) ==
    IF lines = 0
    THEN <<>>
    ELSE LET time_per_line == Rat(D, lines)
         IN [i \in 1..lines |->
                [line |-> i,
                 start |-> RatTimes(i - 1, time_per_line),
                 end |-> RatMin(RatTimes(i, time_per_line), RatOfInt(D))]]

\* add_captions_to_video: duration of the clip it returns.  A caption clip
\* starts at its window's start and lasts end - start; CompositeVideoClip
\* lasts until the latest end of its layers.  `rendered` are the lines whose
\* create_styled_caption did not fail.
AddCaptionsDuration(videoDur, dialogue, rendered) ==
    LET ends == [i \in 1..Len(dialogue) |->
                    IF i \in rendered THEN dialogue[i].end ELSE RatOfInt(0)]
    IN RatNorm(RatMaxOver(RatOfInt(videoDur), ends))

\* the caption lines among from..n that rendered, in line order
RECURSIVE CaptionClips(_, _, _)
CaptionClips(from, n, rendered) ==
    IF from > n THEN <<>>
    ELSE IF from \in rendered
         THEN <<from>> \o CaptionClips(from + 1, n, rendered)
         ELSE CaptionClips(from + 1, n, rendered)

\* a faulty variant: the loop over the lines ends at the first line whose
\* rendering fails
AddCaptionsToVideoStopsAtFailure(n, rendered, composite_raises) ==
    LET first_bad == IF \E i \in 1..n : i \notin rendered
                     THEN CHOOSE i \in 1..n :
                            /\ i \notin rendered
                            /\ \A j \in 1..(i - 1) : j \in rendered
                     ELSE n + 1
        caption_clips == CaptionClips(1, first_bad - 1, rendered)
    IN IF n = 0 \/ caption_clips = <<>> \/ composite_raises
       THEN [original |-> TRUE, layers |-> <<0>>]
       ELSE [original |-> FALSE, layers |-> <<0>> \o caption_clips]

\* add_captions_to_video on n dialogue lines: the clip it returns, as the
\* layers it is made of (0: the video clip, i: the caption of line i).
\* rendered: the lines for which create_styled_caption returned a clip (it
\* returns None when it fails); composite_raises: CompositeVideoClip raised
\* and the except block returned the video clip.
AddCaptionsToVideo(n, rendered, composite_raises) ==
    LET caption_clips == CaptionClips(1, n, rendered)
    IN IF n = 0 \/ caption_clips = <<>> \/ composite_raises
       THEN [original |-> TRUE, layers |-> <<0>>]
       ELSE [original |-> FALSE, layers |-> <<0>> \o caption_clips]

\* ================================================================
\* Footage provider: VideoIllustrationAgent.get_unique_video_for_scene
\* ================================================================

\* index of the first result whose URL is non-empty and not in `used`
\* (0: there is none), scanning from position k
RECURSIVE FirstUnused(_, _, _)
FirstUnused(results, used, k) ==
    IF k > Len(results) THEN 0
    ELSE IF results[k] # NoUrl /\ results[k] \notin used THEN k
    ELSE FirstUnused(results, used, k + 1)

\* a faulty variant: every result the scan passed is marked as used
GetUniqueVideoForSceneMarksScanned(kw, results, used) ==
    IF kw = "raise"
    THEN [outcome |-> "raise", url |-> NoUrl, used |-> used]
    ELSE IF kw = "empty"
    THEN [outcome |-> "failure", url |-> NoUrl, used |-> used]
    ELSE LET k == FirstUnused(results, used, 1)
         IN IF Len(results) > 0 /\ k > 0
            THEN [outcome |-> "success", url |-> results[k],
                  used |-> used \cup {results[j] : j \in 1..k}]
            ELSE [outcome |-> "failure", url |-> NoUrl,
                  used |-> used \cup {results[j] : j \in 1..Len(results)}]

\* a faulty variant: the result is not compared with the used set
GetUniqueVideoForSceneNoUsedCheck(kw, results, used) ==
    IF kw = "raise"
    THEN [outcome |-> "raise", url |-> NoUrl, used |-> used]
    ELSE IF kw = "empty"
    THEN [outcome |-> "failure", url |-> NoUrl, used |-> used]
    ELSE LET k == FirstUnused(results, {}, 1)
         IN IF Len(results) > 0 /\ k > 0
            THEN [outcome |-> "success", url |-> results[k],
                  used |-> used \cup {results[k]}]
            ELSE [outcome |-> "failure", url |-> NoUrl, used |-> used]

\* kw: what generate_search_keywords gave ("ok" a keyword, "empty" a blank
\* keyword, "raise" its fallback raised); results: the video_url of each
\* successful search result, in result order.
GetUniqueVideoForScene(kw, results, used) ==
    IF kw = "raise"
    THEN [outcome |-> "raise", url |-> NoUrl, used |-> used]
    ELSE IF kw = "empty"
    THEN [outcome |-> "failure", url |-> NoUrl, used |-> used]
    ELSE LET k == FirstUnused(results, used, 1)
         IN IF Len(results) > 0 /\ k > 0
            THEN [outcome |-> "success", url |-> results[k],
                  used |-> used \cup {results[k]}]
            ELSE [outcome |-> "failure", url |-> NoUrl, used |-> used]

KeywordOutcomes == {"ok", "empty", "raise"}

RECURSIVE SeqsUpTo(_, _)
SeqsUpTo(S, n) ==
    IF n = 0 THEN {<<>>}
    ELSE LET shorter == SeqsUpTo(S, n - 1)
         IN shorter \cup {Append(q, x) : q \in shorter, x \in S}

SearchResults == SeqsUpTo(UrlPool \cup {NoUrl}, MaxResults)

\* what one call can return, over every keyword outcome and result list
ProviderAnswers(used) ==
    {GetUniqueVideoForScene(kw, results, used) :
        kw \in KeywordOutcomes, results \in SearchResults}

\* ================================================================
\* Asset Acquirer: VideoCompilerAgent.download_video_from_url
\* ================================================================

\* How one download ends, as its caller and the disk see it:
\*   invalid_url   the URL is empty or does not start with http:// or https://
\*   network       requests.get / raise_for_status raised (nothing written)
\*   content_type  the declared content type is not video
\*   oversize      the declared content-length exceeds the cap
\*   midbody       a RequestException while the body was being written
\*   empty         the body had no bytes
\*   corrupt       the written file does not decode as a video
\*   other         any other exception after the file was opened
\*   ok            a valid video was written
\*   ok_oversize   a valid video larger than the cap was written: the response
\*                 declared no content-length, or one within the cap
DownloadOutcomes ==
    {"invalid_url", "network", "content_type", "oversize", "midbody", "empty",
     "corrupt", "other", "ok", "ok_oversize"}

\* the file table after the call: fs maps a file name to what is stored there
\* a file that holds no playable video: truncated, empty or half encoded
InvalidVideo == [kind |-> "invalid", dur |-> RatOfInt(0)]
Video(dur) == [kind |-> "video", dur |-> dur]

Put(fs, path, f) == [x \in DOMAIN fs \cup {path} |-> IF x = path THEN f ELSE fs[x]]
Drop(fs, paths) == [x \in DOMAIN fs \ paths |-> fs[x]]

\* a faulty variant: the body is written before the URL and the declared
\* size are looked at, and no failure removes what was written
DownloadVideoFromUrlWritesFirst(outcome, path, d, fs) ==
    [success |-> outcome \in {"ok", "ok_oversize"},
     error |-> IF outcome \in {"ok", "ok_oversize"} THEN "none" ELSE outcome,
     requested |-> TRUE,
     written |-> "within",
     files |-> Put(fs, path, IF outcome \in {"ok", "ok_oversize"}
                             THEN Video(RatOfInt(d)) ELSE InvalidVideo)]

\* The result of one call and the file table after it.
\*   requested  requests.get was called
\*   written    the bytes the call wrote to output_path: "none", "partial",
\*              "empty", "within" the cap or "over" the cap
DownloadVideoFromUrl(outcome, path, d, fs) ==
    LET put(f) == Put(fs, path, f)
        drop == Drop(fs, {path})
        failure(requested, written, after) ==
            [success |-> FALSE, error |-> outcome, requested |-> requested,
             written |-> written, files |-> after]
        success(written) ==
            [success |-> TRUE, error |-> "none", requested |-> TRUE,
             written |-> written, files |-> put(Video(RatOfInt(d)))]
    IN CASE outcome = "invalid_url" -> failure(FALSE, "none", fs)
         [] outcome \in {"network", "content_type", "oversize"} ->
                failure(TRUE, "none", fs)
         [] outcome = "midbody" -> failure(TRUE, "partial", put(InvalidVideo))
         [] outcome = "empty" -> failure(TRUE, "empty", put(InvalidVideo))
         [] outcome = "corrupt" -> failure(TRUE, "within", drop)
         [] outcome = "other" -> failure(TRUE, "partial", drop)
         [] outcome = "ok" -> success("within")
         [] outcome = "ok_oversize" -> success("over")

\* ================================================================
\* Transition Selector and transition effects
\* ================================================================

TransitionEffects ==
    {"crossfade", "fade_to_black", "zoom_in", "zoom_out", "quick_fade"}

\* How a scene's "content" entry reaches _select_dynamic_transition:
\*   "list"      a list of strings (vocab: the keyword families found in it)
\*   "missing"   no "content" key: .get("content", []) gives the empty list
\*   "string"    a plain string: " ".join puts a blank between its characters,
\*               so no keyword (all are two letters or longer) occurs in it
\*   "none"      None: " ".join(None) raises TypeError
\*   "bad_items" a list holding a non-string: " ".join raises TypeError
ContentKinds == {"list", "missing", "string", "none", "bad_items"}

\* " ".join(scene_data.get("content", [])) raises
JoinRaises(scene_data) == scene_data.content \in {"none", "bad_items"}

\* keyword families that occur in the joined, lowercased content
JoinedVocab(scene_data) ==
    IF scene_data.content = "list" THEN scene_data.vocab ELSE {}

\* the rules with the dramatic rule tried before the action rule
SelectDynamicTransitionDramaticFirst(prev, next, transition_index) ==
    IF JoinRaises(prev) \/ JoinRaises(next) THEN {"crossfade"}
    ELSE
    LET v == JoinedVocab(prev) \cup JoinedVocab(next)
    IN IF "dramatic" \in v THEN {"fade_to_black", "crossfade"}
       ELSE IF "action" \in v THEN {"zoom_in", "zoom_out", "quick_fade"}
       ELSE IF "temporal" \in v THEN {"quick_fade"}
       ELSE IF "scale" \in v THEN {"zoom_in", "zoom_out"}
       ELSE IF transition_index % 4 = 0 THEN {"crossfade"}
       ELSE IF transition_index % 4 = 1 THEN {"zoom_in"}
       ELSE IF transition_index % 4 = 2 THEN {"fade_to_black"}
       ELSE {"quick_fade"}

\* the rules without the except branch: the exception leaves the function
SelectDynamicTransitionNoExcept(prev, next, transition_index) ==
    IF JoinRaises(prev) \/ JoinRaises(next) THEN {"raised"}
    ELSE
    LET v == JoinedVocab(prev) \cup JoinedVocab(next)
    IN IF "action" \in v THEN {"zoom_in", "zoom_out", "quick_fade"}
       ELSE IF "dramatic" \in v THEN {"fade_to_black", "crossfade"}
       ELSE IF "temporal" \in v THEN {"quick_fade"}
       ELSE IF "scale" \in v THEN {"zoom_in", "zoom_out"}
       ELSE IF transition_index % 4 = 0 THEN {"crossfade"}
       ELSE IF transition_index % 4 = 1 THEN {"zoom_in"}
       ELSE IF transition_index % 4 = 2 THEN {"fade_to_black"}
       ELSE {"quick_fade"}

\* _select_dynamic_transition: the effects it can return (random.choice is a
\* choice among the listed effects).  The except branch answers crossfade
\* when joining either scene's content raises.
SelectDynamicTransition(prev, next, transition_index) ==
    IF JoinRaises(prev) \/ JoinRaises(next) THEN {"crossfade"}
    ELSE
    LET v == JoinedVocab(prev) \cup JoinedVocab(next)
    IN IF "action" \in v THEN {"zoom_in", "zoom_out", "quick_fade"}
       ELSE IF "dramatic" \in v THEN {"fade_to_black", "crossfade"}
       ELSE IF "temporal" \in v THEN {"quick_fade"}
       ELSE IF "scale" \in v THEN {"zoom_in", "zoom_out"}
       ELSE IF transition_index % 4 = 0 THEN {"crossfade"}
       ELSE IF transition_index % 4 = 1 THEN {"zoom_in"}
       ELSE IF transition_index % 4 = 2 THEN {"fade_to_black"}
       ELSE {"quick_fade"}

\* a faulty variant: the black interstitial lasts the whole effect duration
ApplyTransitionEffectFullBlack(c1, c2, transition_type, duration, raises) ==
    IF raises THEN <<c1, c2>>
    ELSE IF transition_type = "fade_to_black"
    THEN <<c1, RatOfInt(duration), c2>>
    ELSE <<c1, c2>>

\* a faulty variant: the except block builds the selected effect again
ApplyTransitionEffectNoFallback(c1, c2, transition_type, duration, raises) ==
    IF transition_type = "fade_to_black"
    THEN <<c1, RatNorm(Rat(duration, 2)), c2>>
    ELSE <<c1, c2>>

\* _apply_transition_effect: the durations of the clips it returns for a
\* left clip of duration c1 and a right clip of duration c2 (rationals).
\* raises: the try block raised, the except block builds the crossfade pair.
ApplyTransitionEffect(c1, c2, transition_type, duration, raises) ==
    IF raises THEN <<c1, c2>>
    ELSE IF transition_type = "fade_to_black"
    THEN <<c1, RatNorm(Rat(duration, 2)), c2>>
    ELSE IF transition_type \in {"zoom_in", "zoom_out"}
    THEN LET zoom_duration == RatMin(RatOfInt(duration), c1)
             cut == RatMax(RatOfInt(0), RatSub(c1, zoom_duration))
             clip1_end == RatSub(c1, cut)
             clip1_start == cut
             clip1_final == IF RatLT(RatOfInt(0), clip1_start)
                            THEN RatAdd(clip1_start, clip1_end)
                            ELSE clip1_end
         IN <<clip1_final, c2>>
    ELSE <<c1, c2>>

\* ================================================================
\* State
\* ================================================================
VARIABLES
    pc,               \* where the running top-level call is
    entry,            \* the method the caller invoked: generate_video,
                      \* compile_final_video or create_scene_video
    agent,            \* a video_illustration_agent was passed to the compiler
    script,           \* scenes of the script: <<[lines, vocab]>>
    scenes,           \* scenes_data / processed_scenes
    nscenes,          \* len(scenes_data) of a direct compile_final_video call
    final_output,     \* compile_final_video: output_dir/output_filename
    idx,              \* loop index i of the running loop
    depth,            \* create_scene_video frames on the stack for scene idx
    provider_calls,   \* get_unique_video_for_scene calls made for scene idx
    downloads,        \* download_video_from_url calls made for scene idx
    last_download,    \* how the last of them ended ("none": none was made)
    open_audio_clips, \* AudioFileClip handles the call opened and has not closed
    used_videos,      \* VideoIllustrationAgent.used_videos
    files,            \* file name -> [kind, dur] for every file on disk
    scene_clips,      \* results of the scenes assembled so far in this call
    scene_result,     \* what the last create_scene_video returned
    total_duration,   \* compile_final_video's running total
    transitions_log,  \* VideoCompilerAgent._transitions_log
    compilation_result, \* what compile_final_video returned
    result,           \* what the top-level call returned
    hist,             \* calls made in this run: processed, assembled, compiled
    fit,              \* duration-fit harness: input and returned clip
    cap,              \* caption harness: input and returned windows
    dl,               \* download harness: input, file table before, result
    sel,              \* selector harness: both scenes, index, returned effect
    tl,               \* timeline harness: scene clips, effects, returned clip list
    ovl,              \* caption overlay harness: lines, which render, returned layers
    prov              \* provider harness: keyword, search results, used set, answer

vars == <<pc, entry, agent, script, scenes, nscenes, final_output, idx, depth,
          provider_calls, downloads, last_download, open_audio_clips,
          used_videos, files, scene_clips, scene_result, total_duration, transitions_log,
          compilation_result, result, hist, fit, cap, dl, sel, tl, ovl, prov>>

harnessVars == <<fit, cap, dl, sel, tl, ovl, prov>>

\* file names
SceneFile(i) == <<"scene", i>>
DownloadedFile(i) == <<"downloaded", i>>
FinalFile == <<"final", 0>>
EnhancedFile == <<"final_enhanced", 0>>
NoFile == <<"none", 0>>

\* output_filename values: the default final_video.mp4, and the name of the
\* first scene file (both are joined with the same output_dir)
OutputFiles == {FinalFile, SceneFile(0)}

Exists(f) == f \in DOMAIN files

\* vocabularies _select_dynamic_transition looks for
Vocabularies == {"action", "dramatic", "temporal", "scale"}

\* content of a scene: number of lines and the keyword families in them.
\* Scenes of a whole run: no content, or one line with dramatic vocabulary;
\* a scene assembled on its own: any number of lines.
RunContents ==
    {[lines |-> 0, vocab |-> {}], [lines |-> 1, vocab |-> {"dramatic"}]}
SingleContents == {[lines |-> n, vocab |-> {}] : n \in 0..MaxLines}

\* what earlier calls on the same objects can have left behind
Leftovers ==
    {[used |-> {}, log |-> <<>>],
     [used |-> {"A"},
      log |-> <<[from_scene |-> 0, to_scene |-> 1, transition_type |-> "zoom_out"]>>]}

NoSceneResult ==
    [success |-> FALSE, error |-> "none", scene_index |-> -1,
     duration |-> 0, scene_video |-> NoFile]

NoResult ==
    [success |-> FALSE, step |-> "none", step_scene |-> -1, error |-> "none",
     final_video |-> NoFile, total_duration |-> 0, total_scenes |-> 0,
     transitions_used |-> <<>>]

\* what happened in the running call: which collaborators were invoked, for
\* which scenes, and the stage that failed with the scene it failed on
NoHist == [script |-> FALSE, processed |-> {}, assembled |-> {},
           compiled |-> FALSE, intro |-> FALSE,
           failed |-> "none", failed_scene |-> -1]

NoFit == [asset |-> 0, target |-> 0, raises |-> FALSE, done |-> FALSE,
          clip |-> [duration |-> 0, loops |-> 0, pre |-> 0, ext |-> 0,
                    path |-> "none"]]
NoCap == [lines |-> 0, duration |-> 0, done |-> FALSE, dialogue |-> <<>>]
NoDl == [outcome |-> "none", dur |-> 0, before |-> <<>>, done |-> FALSE,
         result |-> [success |-> FALSE, error |-> "none", requested |-> FALSE,
                     written |-> "none", files |-> <<>>]]
NoProv == [kw |-> "ok", results |-> <<>>, used |-> {}, done |-> FALSE,
           result |-> [outcome |-> "none", url |-> NoUrl, used |-> {}]]
NoOvl == [lines |-> 0, rendered |-> {}, composite_raises |-> FALSE,
          done |-> FALSE, result |-> [original |-> TRUE, layers |-> <<>>]]
NoTl == [durs |-> <<>>, types |-> <<>>, raises |-> <<>>, done |-> FALSE,
         clips |-> <<>>, log |-> <<>>]
NoSel == [prev |-> [content |-> "list", vocab |-> {}],
          next |-> [content |-> "list", vocab |-> {}],
          transition_index |-> 0, done |-> FALSE, effect |-> "none"]

\* the objects are constructed, no call is running
PipelineIdle ==
    /\ pc = "idle"
    /\ entry = "none"
    /\ agent = FALSE
    /\ script = <<>>
    /\ scenes = <<>>
    /\ nscenes = 0
    /\ final_output = NoFile
    /\ idx = 0
    /\ depth = 0
    /\ provider_calls = 0
    /\ downloads = 0
    /\ last_download = "none"
    /\ open_audio_clips = 0
    /\ files = <<>>
    /\ scene_clips = <<>>
    /\ scene_result = NoSceneResult
    /\ total_duration = 0
    /\ compilation_result = NoResult
    /\ result = NoResult
    /\ hist = NoHist

\* Before a top-level call: the agents exist and may have served earlier
\* calls, which leave used_videos and _transitions_log behind.
Init ==
    /\ PipelineIdle
    /\ \E left \in Leftovers :
         used_videos = left.used /\ transitions_log = left.log
    /\ fit = NoFit
    /\ cap = NoCap
    /\ dl = NoDl
    /\ sel = NoSel
    /\ tl = NoTl
    /\ ovl = NoOvl
    /\ prov = NoProv

\* ================================================================
\* Pipeline Driver: VideoGenerationOrchestrator.generate_video
\* ================================================================

\* the part of the state every top-level call starts from
StartCall(e, ag, h) ==
    /\ pc = "idle"
    /\ entry' = e
    /\ agent' = ag
    /\ hist' = h
    /\ idx' = 0
    /\ depth' = 0
    /\ provider_calls' = 0
    /\ downloads' = 0
    /\ last_download' = "none"
    /\ scene_clips' = <<>>
    /\ scene_result' = NoSceneResult
    /\ compilation_result' = NoResult
    /\ open_audio_clips' = 0
    /\ UNCHANGED <<files, harnessVars>>

\* generate_video, step 1: generate_script fails and the driver returns
GenerateScriptFails ==
    /\ StartCall("generate_video", TRUE,
                 [NoHist EXCEPT !.script = TRUE, !.failed = "script_generation"])
    /\ pc' = "done"
    /\ result' = [NoResult EXCEPT !.step = "script_generation",
                                  !.error = "script"]
    /\ script' = <<>>
    /\ scenes' = <<>>
    /\ nscenes' = 0
    /\ final_output' = NoFile
    /\ UNCHANGED <<used_videos, total_duration, transitions_log>>

\* generate_video, step 1: the script collaborator returns the scenes
GenerateScript ==
    /\ StartCall("generate_video", TRUE, [NoHist EXCEPT !.script = TRUE])
    /\ \E n \in 0..MaxScenes :
         \E sc \in [1..n -> RunContents] : script' = sc
    /\ pc' = "process"
    /\ result' = NoResult
    /\ scenes' = <<>>
    /\ nscenes' = 0
    /\ final_output' = NoFile
    /\ UNCHANGED <<used_videos, total_duration, transitions_log>>

\* a faulty variant: the driver notes the failure and moves to the next scene
ProcessSceneFailureSkipped(why, used) ==
    /\ idx' = idx + 1
    /\ scenes' = Append(scenes, [dur |-> 7, lines |-> 0, vocab |-> {}, content |-> "list",
                                 audio |-> FALSE, manim |-> FALSE, url |-> NoUrl])
    /\ used_videos' = used
    /\ hist' = [hist EXCEPT !.processed = @ \cup {idx},
                            !.failed = "scene_processing",
                            !.failed_scene = idx]
    /\ UNCHANGED <<pc, entry, agent, script, nscenes, final_output, depth, provider_calls,
                   downloads, last_download, files, scene_clips, scene_result,
                   total_duration, transitions_log, compilation_result,
                   result,
                   open_audio_clips, harnessVars>>

\* the driver returns because _process_scene(scene idx) failed
ProcessSceneReturnsFailure(why, used) ==
    /\ pc' = "done"
    /\ result' = [NoResult EXCEPT !.step = "scene_processing",
                                  !.error = why,
                                  !.step_scene = idx]
    /\ used_videos' = used
    /\ hist' = [hist EXCEPT !.processed = @ \cup {idx},
                            !.failed = "scene_processing",
                            !.failed_scene = idx]
    /\ UNCHANGED <<entry, agent, script, scenes, nscenes, final_output, idx, depth,
                   provider_calls, downloads, last_download, files, scene_clips,
                   scene_result, total_duration, transitions_log,
                   compilation_result,
                   open_audio_clips, harnessVars>>

\* _process_scene(scene idx) succeeded with scene_data sd
ProcessSceneReturnsData(sd, used) ==
    /\ scenes' = Append(scenes, sd)
    /\ idx' = idx + 1
    /\ used_videos' = used
    /\ hist' = [hist EXCEPT !.processed = @ \cup {idx}]
    /\ UNCHANGED <<pc, entry, agent, script, nscenes, final_output, depth, provider_calls,
                   downloads, last_download, files, scene_clips, scene_result,
                   total_duration, transitions_log, compilation_result,
                   result,
                   open_audio_clips, harnessVars>>

\* generate_video, step 2: one iteration of the scene loop, _process_scene
\* included.  The narration collaborator fails or gives an audio file of some
\* duration; the Manim collaborator gives a video, declines or raises; when
\* it gives none the footage provider is asked.
ProcessScene ==
    /\ pc = "process"
    /\ idx < Len(script)
    /\ LET sc == script[idx + 1]
           data(dur, manim, url) ==
               [dur |-> dur, lines |-> sc.lines, vocab |-> sc.vocab, content |-> "list",
                audio |-> TRUE, manim |-> manim, url |-> url]
       IN \/ ProcessSceneReturnsFailure("audio", used_videos)
          \/ ProcessSceneReturnsFailure("manim_raised", used_videos)
          \/ \E dur \in NarrationDurations :
               \/ ProcessSceneReturnsData(data(dur, TRUE, NoUrl), used_videos)
               \/ \E r \in ProviderAnswers(used_videos) :
                    IF r.outcome = "raise"
                    THEN ProcessSceneReturnsFailure("provider_raised", r.used)
                    ELSE ProcessSceneReturnsData(data(dur, FALSE, r.url), r.used)

\* ================================================================
\* Timeline Compiler, first part: compile_final_video up to the scene loop
\* ================================================================

\* a faulty variant: the transition log of the previous call is kept
CompilePreambleKeepsLog(ag) ==
    /\ total_duration' = 0
    /\ transitions_log' = transitions_log
    /\ used_videos' = IF ag THEN {} ELSE used_videos

\* lines 696-703: fresh clip list, total and transition log; the provider's
\* used set is cleared when an agent was passed
CompilePreamble(ag) ==
    /\ total_duration' = 0
    /\ transitions_log' = <<>>
    /\ used_videos' = IF ag THEN {} ELSE used_videos

\* generate_video, step 3: every scene was processed, compile_final_video is
\* called with processed_scenes and the illustration agent
CallCompileFinalVideo ==
    /\ pc = "process"
    /\ idx = Len(script)
    /\ CompilePreamble(TRUE)
    /\ pc' = "assemble"
    /\ idx' = 0
    /\ depth' = 0
    /\ nscenes' = Len(scenes)
    /\ final_output' \in OutputFiles
    /\ scene_clips' = <<>>
    /\ hist' = [hist EXCEPT !.compiled = TRUE]
    /\ UNCHANGED <<entry, agent, script, scenes, provider_calls, downloads,
                   last_download, files, scene_result, compilation_result,
                   result,
                   open_audio_clips, harnessVars>>

\* compile_final_video called directly on a scenes_data list of n scenes, with
\* or without an illustration agent.  scenes_data[i] is the caller's; the
\* model fixes it when the scene loop first reads it.
StartCompileFinalVideo ==
    /\ \E ag \in BOOLEAN :
         /\ StartCall("compile_final_video", ag, [NoHist EXCEPT !.compiled = TRUE])
         /\ CompilePreamble(ag)
    /\ \E n \in 0..MaxScenes : nscenes' = n
    /\ final_output' \in OutputFiles
    /\ pc' = "assemble"
    /\ script' = <<>>
    /\ scenes' = <<>>
    /\ result' = NoResult

\* what the caller of compile_final_video does with its result cr
CompileReturns(cr) ==
    /\ compilation_result' = cr
    /\ IF entry = "compile_final_video"
       THEN pc' = "done" /\ result' = cr
       ELSE IF ~cr.success
       THEN /\ pc' = "done"
            /\ result' = [NoResult EXCEPT !.step = "video_compilation",
                                          !.error = cr.error]
       ELSE pc' = "intro" /\ result' = NoResult

\* scene_data dictionaries a direct caller can pass
SceneInputs(contents) ==
    {[dur |-> d, lines |-> c.lines, vocab |-> c.vocab, content |-> "list", audio |-> a,
      manim |-> v = "manim", url |-> IF v \in UrlPool THEN v ELSE NoUrl] :
        d \in NarrationDurations, c \in contents,
        a \in BOOLEAN, v \in UrlPool \cup {"manim", "none"}}

\* create_scene_video called directly (as the tests do) on one scene_data,
\* scene_index 0, with or without an illustration agent
StartCreateSceneVideo ==
    /\ \E ag \in BOOLEAN : StartCall("create_scene_video", ag, NoHist)
    /\ \E sd \in SceneInputs(SingleContents) : scenes' = <<sd>>
    /\ nscenes' = 1
    /\ final_output' = NoFile
    /\ pc' = "assemble"
    /\ script' = <<>>
    /\ result' = NoResult
    /\ UNCHANGED <<used_videos, total_duration, transitions_log>>

\* what the caller of create_scene_video does with a failure
SceneFailureReturns ==
    IF entry = "create_scene_video"
    THEN pc' = "done" /\ UNCHANGED <<compilation_result, result>>
    ELSE CompileReturns([NoResult EXCEPT !.error = "scene_creation",
                                         !.step_scene = idx])

\* ================================================================
\* Scene Assembler: VideoCompilerAgent.create_scene_video
\* ================================================================

SetScene(sd) ==
    IF Len(scenes) > idx THEN [scenes EXCEPT ![idx + 1] = sd] ELSE Append(scenes, sd)

\* create_scene_video returns success=False: compile_final_video returns
\* "Scene creation failed" (lines 712-717)
SceneFails(err, sd, fs, used, pcalls, dls, ld) ==
    /\ scene_result' = [NoSceneResult EXCEPT !.error = err, !.scene_index = idx]
    /\ SceneFailureReturns
    /\ scenes' = SetScene(sd)
    /\ files' = fs
    /\ used_videos' = used
    /\ provider_calls' = pcalls
    /\ downloads' = dls
    /\ last_download' = ld
    /\ open_audio_clips' = IF err \in {"audio_not_found", "audio_unreadable"}
                           THEN open_audio_clips
                           ELSE open_audio_clips + 1
    /\ hist' = [hist EXCEPT !.assembled = @ \cup {idx},
                            !.failed = "scene_assembly",
                            !.failed_scene = idx]
    /\ UNCHANGED <<entry, agent, script, nscenes, final_output, idx, depth, scene_clips,
                   total_duration, transitions_log, harnessVars>>

\* create_scene_video returns success=True: the loop appends the scene file
\* and adds the returned duration (lines 709-711); a direct caller is done
SceneSucceeds(clip, sd, fs, used, pcalls, dls, ld) ==
    /\ scene_result' = [success |-> TRUE, error |-> "none", scene_index |-> idx,
                        duration |-> sd.dur, scene_video |-> SceneFile(idx)]
    /\ scene_clips' = Append(scene_clips, clip)
    /\ total_duration' = total_duration + sd.dur
    /\ idx' = idx + 1
    /\ depth' = 0
    /\ scenes' = SetScene(sd)
    /\ files' = fs
    /\ used_videos' = used
    /\ provider_calls' = IF entry = "create_scene_video" THEN pcalls ELSE 0
    /\ downloads' = IF entry = "create_scene_video" THEN dls ELSE 0
    /\ last_download' = IF entry = "create_scene_video" THEN ld ELSE "none"
    /\ pc' = IF entry = "create_scene_video" THEN "done" ELSE pc
    /\ hist' = [hist EXCEPT !.assembled = @ \cup {idx}]
    /\ UNCHANGED <<entry, agent, script, nscenes, final_output, transitions_log,
                   compilation_result, result,
                   open_audio_clips, harnessVars>>

\* the call returns create_scene_video(scene_data, ...) after storing the
\* provider's URL in scene_data["video_url"]
SceneRecurses(sd, fs, used, pcalls, dls, ld) ==
    /\ scenes' = SetScene(sd)
    /\ depth' = depth + 1
    /\ files' = fs
    /\ used_videos' = used
    /\ provider_calls' = pcalls
    /\ downloads' = dls
    /\ last_download' = ld
    /\ open_audio_clips' = open_audio_clips + 1
    /\ hist' = [hist EXCEPT !.assembled = @ \cup {idx}]
    /\ UNCHANGED <<pc, entry, agent, script, nscenes, final_output, idx, scene_clips,
                   scene_result, total_duration, transitions_log,
                   compilation_result, result, harnessVars>>

\* lines 496-509: the durations the visual clip can have after the caption
\* step, over every set of lines whose caption renders
CaptionedDurations(videoDur, lines, D) ==
    LET dialogue == ExtractDialogueFromContent(lines, D)
    IN IF lines > 0 /\ dialogue # <<>>
       THEN {AddCaptionsDuration(videoDur, dialogue, rendered) :
               rendered \in SUBSET (1..lines)}
       ELSE {RatOfInt(videoDur)}

\* the durations _create_looped_video can return for a target T, over every
\* asset duration, with and without a failure of the concatenation
FittedDurations(d, T) ==
    {CreateLoopedVideo(d, T, cr).duration : cr \in BOOLEAN}

\* lines 496-535: captions, audio, encoding of the scene file, return.
\* videoDur is the duration of the visual clip built so far.
CaptionMuxWrite(videoDur, visual, sd, fs, used, pcalls, dls, ld) ==
    \E vdur \in CaptionedDurations(videoDur, sd.lines, sd.dur) :
      LET clip == [index |-> idx, duration |-> sd.dur, vdur |-> vdur,
                   visual |-> visual,
                   url |-> IF visual = "footage" THEN sd.url ELSE NoUrl]
      IN \/ SceneSucceeds(clip, sd,
                          Put(fs, SceneFile(idx), Video(vdur)),
                          used, pcalls, dls, ld)
         \/ SceneFails("encode", sd, fs, used, pcalls, dls, ld)
         \/ SceneFails("encode", sd,
                       Put(fs, SceneFile(idx), InvalidVideo),
                       used, pcalls, dls, ld)

\* a faulty variant: without a usable visual source the scene fails
PlaceholderMissing(visual, sd, fs, used, pcalls, dls, ld) ==
    SceneFails("no_visual", sd, fs, used, pcalls, dls, ld)

\* ColorClip of the narration's duration under a TextClip of the same
\* duration; TextClip may raise, which the outer except turns into a failure
Placeholder(visual, sd, fs, used, pcalls, dls, ld) ==
    \/ CaptionMuxWrite(sd.dur, visual, sd, fs, used, pcalls, dls, ld)
    \/ SceneFails("placeholder", sd, fs, used, pcalls, dls, ld)

\* "Try to get a unique video": ask the provider when an agent was passed and
\* the scene has content; retry the scene with its URL, else the placeholder
AlternateOrPlaceholder(visual, sd, fs, pcalls, dls, ld) ==
    IF agent /\ sd.lines > 0
    THEN \E r \in ProviderAnswers(used_videos) :
           CASE r.outcome = "raise" ->
                  SceneFails("provider_raised", sd, fs, r.used, pcalls + 1, dls, ld)
             [] r.outcome = "success" ->
                  SceneRecurses([sd EXCEPT !.url = r.url], fs, r.used,
                                pcalls + 1, dls, ld)
             [] r.outcome = "failure" ->
                  Placeholder(visual, sd, fs, r.used, pcalls + 1, dls, ld)
    ELSE Placeholder(visual, sd, fs, used_videos, pcalls, dls, ld)

\* a faulty variant: the existence of the audio file is not checked
AudioFileNotChecked(sd) == FALSE

\* lines 380-385: os.path.exists(scene_data["audio_file"]) is false
AudioFileMissing(sd) == ~sd.audio

\* One invocation of create_scene_video for scene idx (one stack frame).
CreateSceneVideo ==
    /\ pc = "assemble"
    /\ idx < nscenes
    /\ \E sd \in IF Len(scenes) > idx THEN {scenes[idx + 1]}
                 ELSE SceneInputs(RunContents) :
         LET pcalls == provider_calls
             dls == downloads
             ld == last_download
         IN IF AudioFileMissing(sd)
            THEN SceneFails("audio_not_found", sd, files, used_videos, pcalls, dls, ld)
            ELSE \/ SceneFails("audio_unreadable", sd, files, used_videos, pcalls, dls, ld)
                 \/ IF sd.manim
                    THEN \/ SceneFails("manim_unreadable", sd, files, used_videos,
                                       pcalls, dls, ld)
                         \/ \E d \in AssetDurations :
                              \E vd \in FittedDurations(d, sd.dur) :
                                CaptionMuxWrite(vd, "manim", sd, files, used_videos,
                                                pcalls, dls, ld)
                    ELSE IF sd.url # NoUrl
                    THEN \E o \in DownloadOutcomes :
                           LET d == UrlDuration(sd.url)
                               download_result ==
                                   DownloadVideoFromUrl(o, DownloadedFile(idx), d, files)
                               fs == download_result.files
                           IN IF download_result.success
                              THEN \/ \E vd \in FittedDurations(d, sd.dur) :
                                        CaptionMuxWrite(vd, "footage", sd, fs,
                                                        used_videos, pcalls, dls + 1, o)
                                   \/ AlternateOrPlaceholder("title", sd, fs,
                                                             pcalls, dls + 1, o)
                              ELSE AlternateOrPlaceholder("title", sd, fs,
                                                          pcalls, dls + 1, o)
                    ELSE AlternateOrPlaceholder("content", sd, files, pcalls, dls, ld)

\* ================================================================
\* Timeline Compiler, second part: transitions, final file, clean-up
\* ================================================================

\* lines 726-779: the clip list handed to concatenate_videoclips, as the
\* durations of its clips.  durs: the scene clips; types[k], raises[k]: the
\* effect selected for junction k and whether applying it raised.
RECURSIVE TransitionedClips(_, _, _, _, _)
TransitionedClips(durs, types, raises, i, acc) ==
    IF i > Len(durs) THEN acc
    ELSE LET prev_clip == acc[Len(acc)]
             tc == ApplyTransitionEffect(prev_clip, durs[i], types[i - 1],
                                         TransitionDuration, raises[i - 1])
             replaced == [acc EXCEPT ![Len(acc)] = tc[1]]
         IN TransitionedClips(durs, types, raises, i + 1,
                              replaced \o Tail(tc))

TimelineClips(durs, types, raises) ==
    IF Len(durs) > 1
    THEN TransitionedClips(durs, types, raises, 2, <<durs[1]>>)
    ELSE durs

TransitionsLog(types) ==
    [k \in 1..Len(types) |->
        [from_scene |-> k - 1, to_scene |-> k, transition_type |-> types[k]]]

\* _cleanup_downloaded_videos: the file tables it can leave.  It removes
\* downloaded_0, downloaded_1, ... in order; an os.remove that raises ends
\* the loop in the except block, which only prints a warning, so the files
\* from that index on stay (j = num_scenes: no removal raised).
CleanupDownloadedVideos(fs, num_scenes) ==
    {Drop(fs, {DownloadedFile(k) : k \in 0..(j - 1)}) :
        j \in {i \in 0..num_scenes :
                  i = num_scenes \/ DownloadedFile(i) \in DOMAIN fs}}

CompileFails(err, log, fs) ==
    /\ CompileReturns([NoResult EXCEPT !.error = err])
    /\ transitions_log' = log
    /\ files' = fs
    /\ hist' = [hist EXCEPT !.failed = "timeline"]
    /\ UNCHANGED <<entry, agent, script, scenes, nscenes, final_output, idx, depth,
                   provider_calls, downloads, last_download, used_videos,
                   scene_clips, scene_result, total_duration,
                   open_audio_clips, harnessVars>>

\* compile_final_video after the scene loop (lines 719-820), and what its
\* caller does with the result
CompileTimeline ==
    /\ pc = "assemble"
    /\ entry # "create_scene_video"
    /\ idx = nscenes
    /\ LET n == Len(scene_clips)
           durs == [k \in 1..n |-> files[SceneFile(k - 1)].dur]
       IN \/ n > 0 /\ CompileFails("load", transitions_log, files)
          \/ n = 0 /\ CompileFails("concatenate", transitions_log, files)
          \/ /\ n > 0
             /\ \E types \in [1..(n - 1) -> TransitionEffects],
                   raises \in [1..(n - 1) -> BOOLEAN] :
                  /\ \A k \in 1..(n - 1) :
                       types[k] \in SelectDynamicTransition(scenes[k], scenes[k + 1], k - 1)
                  /\ LET log == transitions_log \o TransitionsLog(types)
                         final_dur == RatSum(TimelineClips(durs, types, raises))
                         written == Put(files, final_output,
                                        Video(final_dur))
                     IN \/ CompileFails("encode", log, files)
                        \/ CompileFails("encode", log,
                               Put(files, final_output,
                                   InvalidVideo))
                        \/ \E k \in 1..n :
                             CompileFails("remove", log,
                                 Drop(written, {SceneFile(j) : j \in 0..(k - 2)}))
                        \/ /\ CompileReturns(
                                 [NoResult EXCEPT
                                    !.success = TRUE,
                                    !.final_video = final_output,
                                    !.total_duration = total_duration,
                                    !.total_scenes = nscenes,
                                    !.transitions_used = log])
                           /\ transitions_log' = log
                           /\ files' \in CleanupDownloadedVideos(
                                  Drop(written, {SceneFile(j) : j \in 0..(n - 1)}),
                                  nscenes)
                           /\ UNCHANGED <<entry, agent, script, scenes, nscenes, final_output,
                                          idx, depth, provider_calls, downloads,
                                          last_download, used_videos,
                                          scene_clips, scene_result,
                                          total_duration, hist,
                                          open_audio_clips, harnessVars>>

\* generate_video, step 4 and return: add_intro_outro on the compiled file;
\* the driver takes "enhanced_video" when present, the compiled file if not
AddIntroOutro ==
    /\ pc = "intro"
    /\ LET main == compilation_result.final_video
           enhanced == RatSum(<<RatOfInt(IntroDuration), files[main].dur,
                                RatOfInt(OutroDuration)>>)
           returned(final) ==
               [NoResult EXCEPT !.success = TRUE,
                                !.final_video = final,
                                !.total_scenes = Len(script),
                                !.total_duration = compilation_result.total_duration]
       IN \/ /\ Exists(main)
             /\ files' = Put(files, EnhancedFile, Video(enhanced))
             /\ result' = returned(EnhancedFile)
             /\ hist' = [hist EXCEPT !.intro = TRUE]
          \/ /\ files' \in {files,
                            Put(files, EnhancedFile,
                                InvalidVideo)}
             /\ result' = returned(main)
             /\ hist' = [hist EXCEPT !.intro = TRUE, !.failed = "intro_outro"]
    /\ pc' = "done"
    /\ UNCHANGED <<entry, agent, script, scenes, nscenes, final_output, idx, depth,
                   provider_calls, downloads, last_download, used_videos,
                   scene_clips, scene_result, total_duration, transitions_log,
                   compilation_result,
                   open_audio_clips, harnessVars>>

Next ==
    \/ GenerateScriptFails
    \/ GenerateScript
    \/ ProcessScene
    \/ CallCompileFinalVideo
    \/ StartCompileFinalVideo
    \/ StartCreateSceneVideo
    \/ CreateSceneVideo
    \/ CompileTimeline
    \/ AddIntroOutro

Spec == Init /\ [][Next]_vars

\* create_scene_video called on its own, as src/test_video_compiler.py does
SceneNext ==
    \/ StartCreateSceneVideo
    \/ CreateSceneVideo

SceneSpec == Init /\ [][SceneNext]_vars

\* the same call on an interpreter that keeps running: create_scene_video
\* and its recursive calls are synchronous, so a step that can be taken is
\* taken
SceneFairSpec == SceneSpec /\ WF_vars(SceneNext)

\* ================================================================
\* Harnesses for the pure functions
\* ================================================================

pipelineVars == <<pc, entry, agent, script, scenes, nscenes, final_output, idx, depth,
                  provider_calls, downloads, last_download, open_audio_clips,
                  used_videos, files, scene_clips, scene_result, total_duration,
                  transitions_log, compilation_result, result, hist>>

\* _create_looped_video applied to an asset of any duration, for any target,
\* with and without a failure of the concatenation
FitInit ==
    /\ PipelineIdle
    /\ used_videos = {}
    /\ transitions_log = <<>>
    /\ cap = NoCap
    /\ dl = NoDl
    /\ sel = NoSel
    /\ tl = NoTl
    /\ ovl = NoOvl
    /\ prov = NoProv
    /\ fit \in {[NoFit EXCEPT !.asset = d, !.target = T, !.raises = r] :
                  d \in 1..MaxFitDur, T \in 1..MaxFitDur, r \in BOOLEAN}

CallCreateLoopedVideo ==
    /\ ~fit.done
    /\ fit' = [fit EXCEPT !.done = TRUE,
                          !.clip = CreateLoopedVideo(fit.asset, fit.target, fit.raises)]
    /\ UNCHANGED <<pipelineVars, cap, dl, sel, tl, ovl, prov>>

FitNext == CallCreateLoopedVideo

FitSpec == FitInit /\ [][FitNext]_vars

\* extract_dialogue_from_content applied to any number of lines and any
\* narration duration
CapInit ==
    /\ PipelineIdle
    /\ used_videos = {}
    /\ transitions_log = <<>>
    /\ fit = NoFit
    /\ dl = NoDl
    /\ sel = NoSel
    /\ tl = NoTl
    /\ ovl = NoOvl
    /\ prov = NoProv
    /\ cap \in {[NoCap EXCEPT !.lines = n, !.duration = D] :
                  n \in 0..MaxCapLines, D \in 1..MaxFitDur}

CallExtractDialogue ==
    /\ ~cap.done
    /\ cap' = [cap EXCEPT !.done = TRUE,
                          !.dialogue = ExtractDialogueFromContent(cap.lines, cap.duration)]
    /\ UNCHANGED <<pipelineVars, fit, dl, sel, tl, ovl, prov>>

CapNext == CallExtractDialogue

CapSpec == CapInit /\ [][CapNext]_vars

\* what can be at output_path before download_video_from_url is called:
\* nothing, or the file an earlier call for the same scene index left there
FilesBefore ==
    {<<>>} \cup {Put(<<>>, DownloadedFile(0), f) :
                   f \in {InvalidVideo} \cup {Video(RatOfInt(d)) : d \in AssetDurations}}

\* download_video_from_url applied to every kind of URL and response, for
\* every content of output_path
DlInit ==
    /\ PipelineIdle
    /\ used_videos = {}
    /\ transitions_log = <<>>
    /\ fit = NoFit
    /\ cap = NoCap
    /\ sel = NoSel
    /\ tl = NoTl
    /\ ovl = NoOvl
    /\ prov = NoProv
    /\ dl \in {[NoDl EXCEPT !.outcome = o, !.dur = d, !.before = fs] :
                 o \in DownloadOutcomes, d \in AssetDurations, fs \in FilesBefore}

CallDownloadVideoFromUrl ==
    /\ ~dl.done
    /\ dl' = [dl EXCEPT !.done = TRUE,
                        !.result = DownloadVideoFromUrl(dl.outcome, DownloadedFile(0),
                                                        dl.dur, dl.before)]
    /\ UNCHANGED <<pipelineVars, fit, cap, sel, tl, ovl, prov>>

DlNext == CallDownloadVideoFromUrl

DlSpec == DlInit /\ [][DlNext]_vars

\* ================================================================
\* Properties
\* ================================================================

\* ---------------------------------------------------------------
\* Selector harness: _select_dynamic_transition on every pair of scenes
\* ---------------------------------------------------------------
\* a scene as the selector sees it: only a list of strings has vocabulary
SelScenes ==
    {[content |-> "list", vocab |-> v] : v \in SUBSET Vocabularies}
    \cup {[content |-> k, vocab |-> {}] : k \in ContentKinds \ {"list"}}

SelInit ==
    /\ PipelineIdle
    /\ used_videos = {}
    /\ transitions_log = <<>>
    /\ fit = NoFit
    /\ cap = NoCap
    /\ dl = NoDl
    /\ tl = NoTl
    /\ ovl = NoOvl
    /\ prov = NoProv
    /\ sel \in {[NoSel EXCEPT !.prev = p, !.next = n, !.transition_index = i] :
                   p \in SelScenes, n \in SelScenes, i \in 0..MaxIndex}

CallSelectDynamicTransition ==
    /\ ~sel.done
    /\ \E e \in SelectDynamicTransition(sel.prev, sel.next,
                                          sel.transition_index) :
           sel' = [sel EXCEPT !.done = TRUE, !.effect = e]
    /\ UNCHANGED <<pipelineVars, fit, cap, dl, tl, ovl, prov>>

SelNext == CallSelectDynamicTransition

SelSpec == SelInit /\ [][SelNext]_vars


\* ---------------------------------------------------------------
\* Timeline harness: lines 719-779 of compile_final_video on scene clips
\* of every length, every selected effect, raising or not
\* ---------------------------------------------------------------
TlDurations == {4, 14}

TlInit ==
    /\ PipelineIdle
    /\ used_videos = {}
    /\ transitions_log = <<>>
    /\ fit = NoFit
    /\ cap = NoCap
    /\ dl = NoDl
    /\ sel = NoSel
    /\ ovl = NoOvl
    /\ prov = NoProv
    /\ prov = NoProv
    /\ \E n \in 1..MaxTlScenes :
          tl \in {[NoTl EXCEPT !.durs = [k \in 1..n |-> RatOfInt(d[k])],
                               !.types = t, !.raises = r] :
                     d \in [1..n -> TlDurations],
                     t \in [1..(n - 1) -> TransitionEffects],
                     r \in [1..(n - 1) -> BOOLEAN]}

CallApplyTransitions ==
    /\ ~tl.done
    /\ tl' = [tl EXCEPT !.done = TRUE,
                        !.clips = TimelineClips(tl.durs, tl.types, tl.raises),
                        !.log = TransitionsLog(tl.types)]
    /\ UNCHANGED <<pipelineVars, fit, cap, dl, sel, ovl, prov>>

TlNext == CallApplyTransitions

TlSpec == TlInit /\ [][TlNext]_vars


\* ---------------------------------------------------------------
\* Caption overlay harness: add_captions_to_video on every dialogue
\* length, every set of lines that render, compositing raising or not
\* ---------------------------------------------------------------
OvlInit ==
    /\ PipelineIdle
    /\ used_videos = {}
    /\ transitions_log = <<>>
    /\ fit = NoFit
    /\ cap = NoCap
    /\ dl = NoDl
    /\ sel = NoSel
    /\ tl = NoTl
    /\ prov = NoProv
    /\ \E n \in 0..MaxCapLines :
          ovl \in {[NoOvl EXCEPT !.lines = n, !.rendered = r,
                                 !.composite_raises = c] :
                      r \in SUBSET (1..n), c \in BOOLEAN}

CallAddCaptionsToVideo ==
    /\ ~ovl.done
    /\ ovl' = [ovl EXCEPT !.done = TRUE,
                          !.result = AddCaptionsToVideo(ovl.lines, ovl.rendered,
                                                        ovl.composite_raises)]
    /\ UNCHANGED <<pipelineVars, fit, cap, dl, sel, tl, prov>>

OvlNext == CallAddCaptionsToVideo

OvlSpec == OvlInit /\ [][OvlNext]_vars


\* ---------------------------------------------------------------
\* Provider harness: get_unique_video_for_scene on every keyword outcome,
\* every result list and every used set
\* ---------------------------------------------------------------
ProvInit ==
    /\ PipelineIdle
    /\ used_videos = {}
    /\ transitions_log = <<>>
    /\ fit = NoFit
    /\ cap = NoCap
    /\ dl = NoDl
    /\ sel = NoSel
    /\ tl = NoTl
    /\ ovl = NoOvl
    /\ prov \in {[NoProv EXCEPT !.kw = k, !.results = r, !.used = u] :
                    k \in KeywordOutcomes, r \in SearchResults,
                    u \in SUBSET UrlPool}

CallGetUniqueVideoForScene ==
    /\ ~prov.done
    /\ prov' = [prov EXCEPT !.done = TRUE,
                            !.result = GetUniqueVideoForScene(prov.kw, prov.results,
                                                              prov.used)]
    /\ UNCHANGED <<pipelineVars, fit, cap, dl, sel, tl, ovl>>

ProvNext == CallGetUniqueVideoForScene

ProvSpec == ProvInit /\ [][ProvNext]_vars


\* create_scene_video, called on its own, has returned
SceneReturned == entry = "create_scene_video" /\ pc = "done"

\* C1: on every path where create_scene_video returns success, the visual
\* track of the scene file it wrote lasts exactly as long as the narration,
\* and the returned "duration" is the narration's duration.
C1_VisualMatchesNarration ==
    (SceneReturned /\ scene_result.success) =>
        /\ scene_result.duration = scenes[1].dur
        /\ scene_clips[1].vdur = RatOfInt(scenes[1].dur)
        /\ Exists(SceneFile(0))
        /\ files[SceneFile(0)] = Video(RatOfInt(scenes[1].dur))

\* a captioned scene built from footage that is shorter than its narration
C1_Witness ==
    /\ SceneReturned
    /\ scene_result.success
    /\ scene_clips[1].visual = "footage"
    /\ UrlDuration(scene_clips[1].url) < scenes[1].dur
    /\ scenes[1].lines > 0

\* C2: across one generate_video run no two scenes are built from the same
\* remote URL (the provider never returns a URL that is in used_videos).
C2_NoSharedFootage ==
    entry = "generate_video" =>
        \A i, j \in 1..Len(scene_clips) :
            (i # j /\ scene_clips[i].url # NoUrl) =>
                scene_clips[i].url # scene_clips[j].url

\* C3: without an illustration agent, a scene whose download fails is still
\* returned as a success, its file built from the title placeholder; a
\* failure is never due to the visual source (only the placeholder's text
\* clip or the encoding can make the call fail).
C3_DownloadFailureGivesPlaceholder ==
    (/\ SceneReturned
     /\ ~agent
     /\ last_download \in DownloadOutcomes \ {"ok", "ok_oversize"}) =>
        \/ /\ scene_result.success
           /\ scene_clips[1].visual = "title"
           /\ Exists(SceneFile(0))
           /\ files[SceneFile(0)].kind = "video"
        \/ /\ ~scene_result.success
           /\ scene_result.error \in {"placeholder", "encode"}

\* the download failed on the network, no agent, the placeholder was written
C3_Witness ==
    /\ SceneReturned
    /\ ~agent
    /\ last_download = "network"
    /\ scene_result.success
    /\ scene_clips[1].visual = "title"
    /\ Exists(SceneFile(0))

\* C4: while one scene is assembled the provider is asked for an alternate
\* at most once, so there are at most two attempts at a visual.
C4_ProviderAskedAtMostOnce ==
    entry = "create_scene_video" => provider_calls <= 1 /\ downloads <= 2

\* C5: a scene whose audio file is missing makes create_scene_video return
\* success=false with an error and the scene_index, without a download,
\* without a provider call, with used_videos unchanged and no file written.
C5_MissingAudio ==
    [][(entry = "create_scene_video" /\ pc = "assemble" /\ ~scenes[1].audio) =>
          /\ pc' = "done"
          /\ ~scene_result'.success
          /\ scene_result'.error = "audio_not_found"
          /\ scene_result'.scene_index = 0
          /\ downloads' = 0
          /\ provider_calls' = 0
          /\ used_videos' = used_videos
          /\ files' = files]_vars

\* the call returned for a scene that has a URL, with an agent whose used
\* set is not empty
C5_Witness ==
    /\ SceneReturned
    /\ ~scenes[1].audio
    /\ scenes[1].url # NoUrl
    /\ agent
    /\ used_videos # {}
    /\ scene_result.error = "audio_not_found"

\* C6: the driver stops at the first hard failure.  A failed script stage
\* leaves no scene processed; a failure of scene i's processing leaves no
\* later scene processed and compile_final_video not invoked; a failure of
\* scene i's assembly inside compile_final_video leaves no later scene
\* assembled and no final file written.  generate_video then returns
\* success=false with the step of the failed stage.
C6_ShortCircuit ==
    /\ hist.failed = "script_generation" =>
         /\ pc = "done" /\ ~result.success
         /\ result.step = "script_generation"
         /\ hist.processed = {} /\ ~hist.compiled /\ ~hist.intro
    /\ hist.failed = "scene_processing" =>
         /\ pc = "done" /\ ~result.success
         /\ result.step = "scene_processing"
         /\ result.step_scene = hist.failed_scene
         /\ hist.processed = 0..hist.failed_scene
         /\ hist.assembled = {} /\ ~hist.compiled /\ ~hist.intro
    /\ (hist.failed = "scene_assembly" /\ entry # "create_scene_video") =>
         /\ pc = "done" /\ ~compilation_result.success
         /\ hist.assembled = 0..hist.failed_scene
         /\ ~Exists(FinalFile) /\ ~Exists(EnhancedFile) /\ ~hist.intro
         /\ entry = "generate_video" =>
              ~result.success /\ result.step = "video_compilation"

\* the first of two scenes failed in compile_final_video under generate_video
C6_Witness ==
    /\ entry = "generate_video"
    /\ hist.failed = "scene_assembly"
    /\ hist.failed_scene = 0
    /\ Len(script) = 2
    /\ result.step = "video_compilation"

RECURSIVE NarrationSum(_)
NarrationSum(s) == IF s = <<>> THEN 0 ELSE Head(s).dur + NarrationSum(Tail(s))

FadeToBlackCount(log) ==
    Cardinality({k \in 1..Len(log) : log[k].transition_type = "fade_to_black"})

\* C7: when generate_video returns success the final file lasts the sum of
\* the scenes' narrations, plus the 3 s intro, plus the 3 s outro, plus the
\* interstitials of the selected transitions.
C7_FinalDuration ==
    (entry = "generate_video" /\ pc = "done" /\ result.success) =>
        /\ Exists(result.final_video)
        /\ files[result.final_video].kind = "video"
        /\ RatEq(files[result.final_video].dur,
                 RatAdd(RatOfInt(NarrationSum(scenes) + IntroDuration + OutroDuration),
                        RatTimes(FadeToBlackCount(compilation_result.transitions_used),
                                 Rat(TransitionDuration, 2))))

C9_CaptionWindows ==
    (cap.done /\ cap.lines >= 1) =>
        LET w == cap.dialogue
            N == cap.lines
            D == cap.duration
        IN /\ Len(w) = N
           /\ \A i \in 1..N :
                /\ RatEq(w[i].start, Rat((i - 1) * D, N))
                /\ RatEq(w[i].end, Rat(i * D, N))
                /\ RatLE(RatOfInt(0), w[i].start)
                /\ RatLE(w[i].end, RatOfInt(D))
           /\ \A i \in 1..(N - 1) : RatEq(w[i].end, w[i + 1].start)
           /\ RatEq(w[1].start, RatOfInt(0))
           /\ RatEq(w[N].end, RatOfInt(D))

\* three lines over a narration whose duration three does not divide
C9_Witness ==
    /\ cap.done
    /\ cap.lines = 3
    /\ cap.duration = 7
    /\ Len(cap.dialogue) = 3

\* C10: an asset of duration d shorter than the target T is concatenated
\* floor(T/d)+1 times, which lasts at least T, and the clip returned lasts
\* exactly T.
C10_LoopCount ==
    (fit.done /\ fit.asset < fit.target /\ ~fit.raises) =>
        /\ fit.clip.path = "loop"
        /\ fit.clip.loops = (fit.target \div fit.asset) + 1
        /\ fit.clip.pre = fit.clip.loops * fit.asset
        /\ fit.clip.pre >= fit.target
        /\ fit.clip.duration = fit.target

\* an asset that divides the target: one loop more than T/d is still made
C10_Witness ==
    /\ fit.done
    /\ ~fit.raises
    /\ fit.asset = 3
    /\ fit.target = 12
    /\ fit.clip.loops = 5

C12_InvalidUrl ==
    (dl.done /\ dl.outcome = "invalid_url") =>
        /\ ~dl.result.success
        /\ dl.result.error = "invalid_url"
        /\ ~dl.result.requested
        /\ dl.result.written = "none"
        /\ dl.result.files = dl.before

\* an invalid URL while an earlier download is still at output_path
C12_Witness ==
    /\ dl.done
    /\ dl.outcome = "invalid_url"
    /\ dl.before # <<>>
    /\ dl.result.files = dl.before

\* C13: when the declared content-length exceeds the cap the call returns
\* success=false before output_path is opened: no byte of the body reaches
\* the disk.
C13_DeclaredOversize ==
    (dl.done /\ dl.outcome = "oversize") =>
        /\ ~dl.result.success
        /\ dl.result.error = "oversize"
        /\ dl.result.written = "none"
        /\ dl.result.files = dl.before

\* a declared oversize, nothing at output_path before or after
C13_Witness ==
    /\ dl.done
    /\ dl.outcome = "oversize"
    /\ dl.before = <<>>
    /\ dl.result.files = <<>>

\* C14: a body larger than the cap is rejected also when the declared
\* content-length is absent or within the cap: the call never returns
\* success for, and never writes, more than the cap.
C14_ActualOversize ==
    dl.done => dl.result.written # "over"

\* C15: when the call returns success=false after it started writing
\* output_path, no file written by it remains at output_path.
C15_FailureRemovesFile ==
    (dl.done /\ ~dl.result.success /\ dl.result.written # "none") =>
        DownloadedFile(0) \notin DOMAIN dl.result.files

\* C16: whenever compile_final_video reports success=false, no file exists
\* at the final output path as a result of that call, whichever step failed.
C16_NoFinalFileOnFailure ==
    (hist.compiled /\ pc = "done" /\ ~compilation_result.success) =>
        ~Exists(FinalFile)

\* C17: every audio or video handle opened while a scene is assembled is
\* closed when create_scene_video returns, on the success path, on every
\* failure path and on the retry path: as many handles are open after the
\* call as before it.
C17_HandlesClosed ==
    SceneReturned => open_audio_clips = 0

\* C18: with a narration file that exists, and placeholder synthesis and
\* encoding that do not fail, create_scene_video returns success=true
\* whatever fails while the visual is resolved: an unreadable Manim video, a
\* failed download, a download that cannot be processed, a provider that
\* returns failure or a provider call that raises.
C18_VisualFailuresRecovered ==
    (/\ SceneReturned
     /\ scenes[1].audio
     /\ scene_result.error \notin {"audio_unreadable", "placeholder", "encode"}) =>
        scene_result.success

\* an encoding step of the run failed: the scene file, the compiled
\* timeline or the file with intro and outro
EncodeFailed ==
    \/ hist.failed = "scene_assembly" /\ scene_result.error = "encode"
    \/ hist.failed = "timeline" /\ compilation_result.error = "encode"
    \/ hist.failed = "intro_outro"

\* C19: an encode failure at any stage of a run is fatal: generate_video
\* returns success=false and names the failing stage, never success=true.
C19_EncodeFailureFatal ==
    (entry = "generate_video" /\ pc = "done" /\ EncodeFailed) =>
        ~result.success /\ result.step # "none"

\* C20: used_videos is reset at the start of each full run and nowhere else
\* within it: it is empty before the first scene's visual is resolved, and
\* every URL handed to a scene stays in it until the run ends.
C20_UsedSetRunScoped ==
    entry = "generate_video" =>
        /\ (pc = "process" /\ idx = 0) => used_videos = {}
        /\ \A k \in 1..Len(scenes) :
              scenes[k].url # NoUrl => scenes[k].url \in used_videos

\* C21: _select_dynamic_transition applies its rules in priority order over
\* the content of both scenes, first match wins: action vocabulary gives one
\* of zoom_in, zoom_out, quick_fade; else dramatic vocabulary gives one of
\* fade_to_black, crossfade; else temporal vocabulary gives quick_fade; else
\* scale vocabulary gives one of zoom_in, zoom_out; else the index modulo 4
\* gives crossfade, zoom_in, fade_to_black, quick_fade for 0, 1, 2, 3.
C21_PriorityOrder ==
    (sel.done /\ sel.prev.content = "list" /\ sel.next.content = "list") =>
        LET v == sel.prev.vocab \cup sel.next.vocab
            m == sel.transition_index % 4
        IN /\ "action" \in v => sel.effect \in {"zoom_in", "zoom_out", "quick_fade"}
           /\ ("action" \notin v /\ "dramatic" \in v) =>
                  sel.effect \in {"fade_to_black", "crossfade"}
           /\ (v \cap {"action", "dramatic"} = {} /\ "temporal" \in v) =>
                  sel.effect = "quick_fade"
           /\ (v \cap {"action", "dramatic", "temporal"} = {} /\ "scale" \in v) =>
                  sel.effect \in {"zoom_in", "zoom_out"}
           /\ v = {} =>
                  /\ m = 0 => sel.effect = "crossfade"
                  /\ m = 1 => sel.effect = "zoom_in"
                  /\ m = 2 => sel.effect = "fade_to_black"
                  /\ m = 3 => sel.effect = "quick_fade"

\* action vocabulary in one scene and dramatic vocabulary in the other: the
\* action rule answered
C21_Witness ==
    /\ sel.done
    /\ sel.prev.content = "list" /\ sel.next.content = "list"
    /\ "dramatic" \in sel.prev.vocab /\ "action" \notin sel.prev.vocab
    /\ "action" \in sel.next.vocab
    /\ sel.effect = "zoom_out"

\* C22 as stated: the function always returns one of the five effects, and
\* a scene whose content is missing, None or not a list of strings makes it
\* return crossfade.
C22_AsStated ==
    sel.done =>
        /\ sel.effect \in TransitionEffects
        /\ (sel.prev.content # "list" \/ sel.next.content # "list") =>
               sel.effect = "crossfade"

\* C22: the function never raises and always returns one of the five
\* effects; when joining the content raises (None, or a list holding a
\* non-string, in either scene) it returns crossfade.  Content that is
\* missing or a plain string does not raise: it counts as content without
\* keywords and the rules decide.
C22_NeverRaises ==
    sel.done =>
        /\ sel.effect \in TransitionEffects
        /\ (JoinRaises(sel.prev) \/ JoinRaises(sel.next)) =>
               sel.effect = "crossfade"
        /\ (~JoinRaises(sel.prev) /\ ~JoinRaises(sel.next)) =>
               sel.effect \in SelectDynamicTransition(
                   [content |-> "list", vocab |-> JoinedVocab(sel.prev)],
                   [content |-> "list", vocab |-> JoinedVocab(sel.next)],
                   sel.transition_index)

\* content None in the first scene, action vocabulary in the second, an
\* index whose default is zoom_in: crossfade came back
C22_Witness ==
    /\ sel.done
    /\ sel.prev.content = "none"
    /\ "action" \in sel.next.vocab
    /\ sel.transition_index = 1
    /\ sel.effect = "crossfade"

\* junctions of the timeline harness where the selected effect was applied,
\* i.e. whose try block did not raise
AppliedJunctions(effect) ==
    {k \in 1..Len(tl.types) : tl.types[k] = effect /\ ~tl.raises[k]}

\* C23: the compiled timeline lasts the sum of the scene segments plus half
\* the effect duration for every junction where fade_to_black was applied,
\* and nothing for crossfade, quick_fade, zoom_in and zoom_out; a zoom
\* junction keeps the left segment's duration also when the segment is
\* shorter than the effect duration.
C23_TimelineDuration ==
    tl.done =>
        /\ RatEq(RatSum(tl.clips),
                 RatAdd(RatSum(tl.durs),
                        Rat(Cardinality(AppliedJunctions("fade_to_black"))
                              * TransitionDuration, 2)))
        /\ \A k \in AppliedJunctions("zoom_in") \cup AppliedJunctions("zoom_out") :
              \E j \in 1..Len(tl.clips) :
                 /\ RatEq(tl.clips[j], tl.durs[k])
                 /\ RatEq(RatSum(SubSeq(tl.clips, 1, j)),
                          RatAdd(RatSum(SubSeq(tl.durs, 1, k)),
                                 Rat(Cardinality({f \in AppliedJunctions("fade_to_black") : f < k})
                                       * TransitionDuration, 2)))

\* three scenes, the first shorter than the effect: a zoom after the first
\* and a fade to black after the second, timeline = segments + 0.5 s
C23_Witness ==
    /\ tl.done
    /\ Len(tl.durs) = 3
    /\ RatLT(tl.durs[1], RatOfInt(TransitionDuration))
    /\ tl.types = <<"zoom_in", "fade_to_black">>
    /\ tl.raises = <<FALSE, FALSE>>
    /\ Len(tl.clips) = 4
    /\ RatEq(tl.clips[1], tl.durs[1])

C25_IntermediatesDeleted ==
    compilation_result.success =>
        \A k \in 0..(nscenes - 1) :
            /\ SceneFile(k) \notin DOMAIN files
            /\ DownloadedFile(k) \notin DOMAIN files

\* C26: in add_captions_to_video a caption line whose rendering fails is
\* skipped while every other line is composited over the clip, in line
\* order; if no line renders, or compositing raises, the original clip is
\* returned unchanged.
C26_FailedCaptionSkipped ==
    ovl.done =>
        LET layers == ovl.result.layers
        IN /\ layers[1] = 0
           /\ IF ovl.rendered = {} \/ ovl.composite_raises
              THEN ovl.result.original /\ layers = <<0>>
              ELSE /\ ~ovl.result.original
                   /\ {layers[k] : k \in 2..Len(layers)} = ovl.rendered
                   /\ Len(layers) = 1 + Cardinality(ovl.rendered)
                   /\ \A k \in 2..(Len(layers) - 1) : layers[k] < layers[k + 1]

\* three lines, the second fails to render: the first and the third are
\* composited over the clip
C26_Witness ==
    /\ ovl.done
    /\ ovl.lines = 3
    /\ ovl.rendered = {1, 3}
    /\ ovl.result.layers = <<0, 1, 3>>

\* C28: get_unique_video_for_scene changes used_videos only on success: a
\* successful call returns the first search result, in result order, whose
\* URL is non-empty and not in used_videos before the call, and adds exactly
\* that URL; a failed call (no keyword, search failure, every result used)
\* leaves used_videos unchanged.
C28_UsedChangesOnlyOnSuccess ==
    prov.done =>
        LET fresh == {k \in 1..Len(prov.results) :
                        prov.results[k] # NoUrl /\ prov.results[k] \notin prov.used}
        IN IF prov.result.outcome = "success"
           THEN /\ prov.kw = "ok"
                /\ \E k \in fresh :
                      /\ \A j \in fresh : k <= j
                      /\ prov.result.url = prov.results[k]
                /\ prov.result.used = prov.used \cup {prov.result.url}
                /\ prov.result.used # prov.used
           ELSE /\ prov.kw # "ok" \/ fresh = {}
                /\ prov.result.used = prov.used

\* the first result is already used, the second is not: the second is
\* returned and added
C28_Witness ==
    /\ prov.done
    /\ prov.results = <<"A", "B">>
    /\ prov.used = {"A"}
    /\ prov.result.outcome = "success"
    /\ prov.result.url = "B"
    /\ prov.result.used = {"A", "B"}

\* C27: scene assembly terminates.  Every recursive retry of
\* create_scene_video follows a successful get_unique_video_for_scene call
\* that adds one URL not yet in used_videos, and used_videos never loses a
\* URL during the call, so the recursion depth for one scene is bounded by
\* the number of unused URLs of the (finite) pool; create_scene_video
\* eventually returns.
C27_SceneAssemblyTerminates ==
    /\ [][/\ used_videos \subseteq used_videos'
          /\ (depth' # depth /\ depth' # 0) =>
                /\ depth' = depth + 1
                /\ provider_calls' = provider_calls + 1
                /\ \E u \in UrlPool \ used_videos :
                      used_videos' = used_videos \cup {u}]_vars
    /\ [](depth <= Cardinality(UrlPool))
    /\ <>SceneReturned

\* both URLs of the pool were tried in turn, two recursive calls deep; the
\* third provider call found nothing new and the call returned
C27_Witness ==
    /\ SceneReturned
    /\ scene_result.success
    /\ downloads = 3
    /\ provider_calls = 3
    /\ used_videos = UrlPool

\* C29: the total_duration of a successful compile_final_video, which
\* generate_video passes through unchanged, is the sum of the narration
\* durations of all scenes; the emitted file is longer by exactly the
\* fade_to_black interstitials it contains (at most one per logged
\* fade_to_black junction) and, for generate_video, the intro and the outro.
C29_TotalDuration ==
    /\ compilation_result.success =>
          compilation_result.total_duration = NarrationSum(scenes)
    /\ (pc = "done" /\ result.success) =>
          /\ result.total_duration = NarrationSum(scenes)
          /\ Exists(result.final_video)
          /\ \E c \in 0..FadeToBlackCount(compilation_result.transitions_used) :
                RatEq(files[result.final_video].dur,
                      RatAdd(RatOfInt(result.total_duration
                                      + IF entry = "generate_video"
                                        THEN IntroDuration + OutroDuration
                                        ELSE 0),
                             Rat(c * TransitionDuration, 2)))

\* C30: whenever compile_final_video returns success=true, the file at the
\* returned final_video path still exists after the intermediate files were
\* removed, for every output_filename, the name of a scene file included.
C30_FinalFileSurvivesCleanup ==
    compilation_result.success =>
        compilation_result.final_video \in DOMAIN files

====
